---- MODULE Spec2Model ----
(***************************************************************************)
(* useAbortableEffect (src/src/index.js): a React hook that runs an effect *)
(* with an AbortSignal, creates a new AbortController for every effect run *)
(* after the first, and aborts the previous controller at cleanup unless   *)
(* the effect returned its own cleanup function.                           *)
(*                                                                         *)
(* The hook's two refs, the controllers it created and the host's effect   *)
(* bookkeeping (committed deps, registered cleanup) are the state.  The    *)
(* host (React's useEffect) calls the effect closure after a render whose  *)
(* deps changed, after calling the cleanup closure of the previous run,    *)
(* and calls the last cleanup closure at unmount.                          *)
(***************************************************************************)
EXTENDS Integers, Sequences, FiniteSets

\* ---------------------------------------------------------------- bounds
MaxRenders == 3        \* renders of the owning component in one run
MaxSignalRenders == 2  \* the same, in runs in which listeners are registered
MaxAbortCalls == 2     \* abort() calls made through the ref in one run
NumListeners == 1      \* listener functions user code registers in one run

Listeners == 1..NumListeners

\* `undefined` as the value of controllerRef.current before the first render
Undefined == 0

VARIABLES
    native,         \* typeof AbortController !== 'undefined' in this environment
    handles,        \* the controllers created so far; a controller's identity is its index
    controllerRef,  \* controllerRef.current
    firstRun,       \* firstRun.current
    phase,          \* where the host is: "init", "rendered", "cleaned", "idle", "destroyed"
    mounted,        \* host: the effect has been run at least once
    deps,           \* host: the deps of the last effect run
    nextDeps,       \* host: the deps useEffect was given by the latest render
    cleanup,        \* host: the cleanup closure the last effect run returned
    error,          \* host: an error thrown by the effect reached the host
    activations,    \* history: one record per call of the effect closure
    calls,          \* history: per controller, abort() calls by caller and early listeners
    trace,          \* history: controller creations, effect calls and cleanup calls in order
    renders,        \* history: number of renders
    lastDeps,       \* history: the deps the component passed to the hook at the latest render
    changed,        \* history: number of re-renders whose deps differ from the previous render's
    userCalls,      \* history: the calls of the user's effect and cleanup functions, in order
    plain,          \* reference: the same effect body under a plain useEffect with the same deps
    thrown,         \* history: the errors the user's functions threw
    received        \* host: the errors that came out of the hook's closures

vars == <<native, handles, controllerRef, firstRun, phase, mounted, deps, nextDeps,
          cleanup, error, activations, calls, trace, renders, lastDeps, changed,
          userCalls, plain, thrown, received>>

\* ------------------------------------------------------- AbortController
\* A controller together with its signal: `aborted` is signal.aborted,
\* `listeners` the 'abort' listeners on the signal, `notified` how often each
\* listener function has been invoked.
NativeAbortController ==
    [native |-> TRUE, aborted |-> FALSE, listeners |-> {},
     notified |-> [l \in Listeners |-> 0]]

mockAbortController ==
    [native |-> FALSE, aborted |-> FALSE, listeners |-> {},
     notified |-> [l \in Listeners |-> 0]]

createAbortControllerAlwaysNative(env) == NativeAbortController

createAbortControllerAlwaysMock(env) == mockAbortController

createAbortController(env) ==
    IF env THEN NativeAbortController ELSE mockAbortController

noop(c) == c

\* controller.abort(): the first call on a native controller sets
\* signal.aborted and dispatches 'abort' to the listeners; later calls and
\* every call on the mock do nothing.
abort(c) ==
    IF c.native
    THEN IF c.aborted
         THEN c
         ELSE [c EXCEPT !.aborted = TRUE,
                        !.notified = [l \in Listeners |->
                                         IF l \in c.listeners THEN @[l] + 1 ELSE @[l]]]
    ELSE noop(c)

\* signal.addEventListener('abort', l)
addEventListener(c, l) ==
    IF c.native THEN [c EXCEPT !.listeners = @ \cup {l}] ELSE noop(c)

\* controller.signal and the controller itself, as values handed to user code
Signal(h) == [kind |-> "AbortSignal", of |-> h]
Controller(h) == [kind |-> "AbortController", of |-> h]

\* ------------------------------------------------------------ user inputs
\* What a call of the user's effect does: return a non-function, return a
\* cleanup function (one that leaves the controller alone, one that aborts
\* it), or throw.
EffectOutcomes == {"undefined", "promise", "fnKeep", "fnAbort", "throw"}

\* The same, with a cleanup function that throws when it is called.
ThrowingOutcomes == {"undefined", "fnKeep", "fnThrow", "throw"}

\* The same, over more kinds of return value.
ReturnValues == {"undefined", "null", "number", "promise", "object", "fnKeep"}

TypeofFunction(o) == o \in {"fnKeep", "fnAbort", "fnThrow"}

\* The deps argument: absent, or a list of values.
Absent == [present |-> FALSE, list |-> <<>>]
DepLists ==
    {<<"someValue", "x">>, <<"newValue", "x">>, <<"someValue", "y">>}
DepsChoices ==
    {Absent} \cup {[present |-> TRUE, list |-> l] : l \in DepLists}


\* Deps lists keep their shape between renders (present or absent, same length).
SameShape(d, e) == d.present = e.present /\ Len(d.list) = Len(e.list)

\* ------------------------------------------------------------- the host
\* useEffect's comparison of the deps of two renders: absent deps never
\* compare equal, lists compare element by element.
areHookInputsEqual(a, b) ==
    /\ a.present /\ b.present
    /\ \A i \in 1..Len(a.list) : i <= Len(b.list) => a.list[i] = b.list[i]

NoCleanup == [kind |-> "none", controller |-> Undefined, fn |-> "undefined", activation |-> 0]

\* --------------------------------------------------------------- the hook
DepsForUseEffectOmitted(d) == Absent

DepsForUseEffectEmptyList(d) == IF d.present THEN d ELSE [present |-> TRUE, list |-> <<>>]

\* useEffect(() => {...}, deps): the hook hands its deps argument to the host
DepsForUseEffect(d) == d

NeedsControllerAlways(ref) == TRUE

NeedsControllerNever(ref) == FALSE

\* if (!controllerRef.current)
NeedsController(ref) == ref = Undefined

CreatesControllerAlways(first) == TRUE

CreatesControllerNever(first) == FALSE

\* if (firstRun.current === false): this effect run gets a new controller
CreatesController(first) == first = FALSE

EffectArgController(h) == Controller(h)

\* effect(controller.signal)
EffectArg(h) == Signal(h)

ReturnedCleanupAlwaysDefault(o, h, n) ==
    [kind |-> "default", controller |-> h, fn |-> o, activation |-> n]

ReturnedCleanupTruthy(o, h, n) ==
    IF o \notin {"undefined", "null"}
    THEN [kind |-> "custom", controller |-> h, fn |-> o, activation |-> n]
    ELSE [kind |-> "default", controller |-> h, fn |-> o, activation |-> n]

ReturnedCleanupOnlyCustom(o, h, n) ==
    IF TypeofFunction(o)
    THEN [kind |-> "custom", controller |-> h, fn |-> o, activation |-> n]
    ELSE NoCleanup

\* What the effect closure returns to the host for the effect's result o:
\* () => cleanupFn.call(null, controller), or () => controller.abort().
\* Both closures capture the controller of this run.
ReturnedCleanup(o, h, n) ==
    IF TypeofFunction(o)
    THEN [kind |-> "custom", controller |-> h, fn |-> o, activation |-> n]
    ELSE [kind |-> "default", controller |-> h, fn |-> o, activation |-> n]

\* Who calls abort() when the cleanup closure cl runs: the hook itself (the
\* default closure), the user's cleanup function, or nobody.
CleanupAbortsAlsoCustom(cl) ==
    IF cl.kind = "default" \/ cl.kind = "custom" THEN "binder" ELSE "nobody"

CleanupAbortsNever(cl) ==
    IF cl.kind = "custom" /\ cl.fn = "fnAbort" THEN "cleanupFn" ELSE "nobody"

CleanupAborts(cl) ==
    IF cl.kind = "default" THEN "binder"
    ELSE IF cl.kind = "custom" /\ cl.fn = "fnAbort" THEN "cleanupFn"
    ELSE "nobody"

CleanupArgSignal(cl) == Signal(cl.controller)

\* The argument the user's cleanup function is called with.
CleanupArg(cl) == Controller(cl.controller)

\* The controllers after the cleanup closure cl has run.
HandlesAfterCleanup(cl) ==
    IF CleanupAborts(cl) # "nobody"
    THEN [handles EXCEPT ![cl.controller] = abort(@)]
    ELSE handles

CallsAfterCleanup(cl) ==
    IF CleanupAborts(cl) # "nobody"
    THEN [calls EXCEPT ![cl.controller].by[CleanupAborts(cl)] = @ + 1]
    ELSE calls

ActivationsAfterCleanup(cl) ==
    [activations EXCEPT ![cl.activation].teardowns = @ + 1,
                        ![cl.activation].cleanupArgs =
                            IF cl.kind = "custom" THEN Append(@, CleanupArg(cl)) ELSE @,
                        ![cl.activation].cleanupRefs =
                            IF cl.kind = "custom" THEN Append(@, controllerRef) ELSE @]

NoCalls ==
    [by |-> [w \in {"binder", "cleanupFn", "external"} |-> 0], registered |-> {}, early |-> {}]

TotalCalls(h) == calls[h].by["binder"] + calls[h].by["cleanupFn"] + calls[h].by["external"]

\* The calls of the user's functions after the cleanup closure cl has run.
UserCallsAfterCleanup(cl) ==
    IF cl.kind = "custom" THEN Append(userCalls, <<"cleanup", cl.activation>>) ELSE userCalls

\* An error thrown by a user function in activation n.
Err(who, n) == [by |-> who, activation |-> n]

\* The error the user's cleanup function throws when the closure cl runs, if any.
CleanupThrows(cl) ==
    IF cl.kind = "custom" /\ cl.fn = "fnThrow" THEN <<Err("cleanupFn", cl.activation)>> ELSE <<>>

PropagatesSwallowed(errs) == <<>>

\* The closures call effect and cleanupFn without a try: what the user's
\* function throws comes out of the closure as it is.
Propagates(errs) == errs

\* The plain useEffect of the reference: its cleanup is the function the
\* effect returned, if it returned one.
NoPlainCleanup == 0

PlainAfterCleanup ==
    IF plain.cleanup # NoPlainCleanup
    THEN Append(plain.calls, <<"cleanup", plain.cleanup>>)
    ELSE plain.calls

RECURSIVE ExternalCalls(_)
ExternalCalls(h) == IF h = 0 THEN 0 ELSE calls[h].by["external"] + ExternalCalls(h - 1)

\* ---------------------------------------------------------------- Init
Init ==
    /\ native \in BOOLEAN
    /\ handles = <<>>
    /\ controllerRef = Undefined
    /\ firstRun = TRUE
    /\ phase = "init"
    /\ mounted = FALSE
    /\ deps = Absent
    /\ nextDeps = Absent
    /\ cleanup = NoCleanup
    /\ error = FALSE
    /\ activations = <<>>
    /\ calls = <<>>
    /\ trace = <<>>
    /\ renders = 0
    /\ lastDeps = Absent
    /\ changed = 0
    /\ userCalls = <<>>
    /\ plain = [calls |-> <<>>, cleanup |-> NoPlainCleanup]
    /\ thrown = <<>>
    /\ received = <<>>

\* -------------------------------------------------------------- actions
\* A render of the owning component with deps d: the body of
\* useAbortableEffect up to the useEffect call.
Render(d, max) ==
    /\ phase \in {"init", "idle"}
    /\ ~error
    /\ renders < max
    /\ phase = "idle" => SameShape(d, lastDeps)
    /\ IF NeedsController(controllerRef)
       THEN /\ handles' = Append(handles, createAbortController(native))
            /\ controllerRef' = Len(handles) + 1
            /\ calls' = Append(calls, NoCalls)
            /\ trace' = Append(trace, <<"create", Len(handles) + 1>>)
       ELSE UNCHANGED <<handles, controllerRef, calls, trace>>
    /\ nextDeps' = DepsForUseEffect(d)
    /\ phase' = "rendered"
    /\ renders' = renders + 1
    /\ lastDeps' = d
    /\ changed' = IF phase = "idle" /\ (~d.present \/ d # lastDeps) THEN changed + 1 ELSE changed
    /\ UNCHANGED <<native, firstRun, mounted, deps, cleanup, error, activations,
                   userCalls, plain, thrown, received>>

\* The host finds the deps of this render equal to those of the last effect
\* run: neither the cleanup nor the effect closure is called.
SkipEffect ==
    /\ phase = "rendered"
    /\ mounted
    /\ areHookInputsEqual(nextDeps, deps)
    /\ phase' = "idle"
    /\ UNCHANGED <<native, handles, controllerRef, firstRun, mounted, deps, nextDeps,
                   cleanup, error, activations, calls, trace, renders, lastDeps, changed,
                   userCalls, plain, thrown, received>>

\* The deps changed: the host calls the cleanup closure of the previous run.
Teardown ==
    /\ phase = "rendered"
    /\ mounted
    /\ ~areHookInputsEqual(nextDeps, deps)
    /\ cleanup # NoCleanup
    /\ handles' = HandlesAfterCleanup(cleanup)
    /\ calls' = CallsAfterCleanup(cleanup)
    /\ activations' = ActivationsAfterCleanup(cleanup)
    /\ trace' = Append(trace, <<"teardown", cleanup.activation>>)
    /\ userCalls' = UserCallsAfterCleanup(cleanup)
    /\ plain' = [calls |-> PlainAfterCleanup, cleanup |-> NoPlainCleanup]
    /\ thrown' = thrown \o CleanupThrows(cleanup)
    /\ received' = received \o Propagates(CleanupThrows(cleanup))
    /\ error' = (error \/ Propagates(CleanupThrows(cleanup)) # <<>>)
    /\ cleanup' = NoCleanup
    /\ phase' = "cleaned"
    /\ UNCHANGED <<native, controllerRef, firstRun, mounted, deps, nextDeps,
                   renders, lastDeps, changed>>

\* The host calls the effect closure (at first mount, or after the previous
\* run's cleanup when the deps changed); the user's effect ends with outcome o.
Activate(o) ==
    /\ \/ phase = "rendered" /\ ~mounted
       \/ phase = "rendered" /\ ~areHookInputsEqual(nextDeps, deps) /\ cleanup = NoCleanup
       \/ phase = "cleaned"
    /\ LET create == CreatesController(firstRun)
           controller == IF create THEN Len(handles) + 1 ELSE controllerRef
           n == Len(activations) + 1
           errs == IF o = "throw" THEN <<Err("effect", n)>> ELSE <<>>
       IN  /\ handles' = IF create
                         THEN Append(handles, createAbortController(native))
                         ELSE handles
           /\ calls' = IF create THEN Append(calls, NoCalls) ELSE calls
           /\ controllerRef' = controller
           /\ firstRun' = FALSE
           /\ activations' = Append(activations,
                  [handle |-> controller, arg |-> EffectArg(controller), ret |-> o,
                   teardowns |-> 0, cleanupArgs |-> <<>>, cleanupRefs |-> <<>>,
                   abortedAtCall |-> handles'[controller].aborted,
                   callsBefore |-> IF create THEN 0 ELSE TotalCalls(controller)])
           /\ trace' = (IF create THEN Append(trace, <<"create", controller>>) ELSE trace)
                           \o << <<"effect", n>> >>
           /\ cleanup' = IF o = "throw" THEN NoCleanup ELSE ReturnedCleanup(o, controller, n)
           /\ userCalls' = Append(userCalls, <<"effect", n>>)
           /\ plain' = [calls |-> Append(PlainAfterCleanup, <<"effect", n>>),
                        cleanup |-> IF TypeofFunction(o) THEN n ELSE NoPlainCleanup]
           /\ thrown' = thrown \o errs
           /\ received' = received \o Propagates(errs)
           /\ error' = (error \/ Propagates(errs) # <<>>)
    /\ deps' = nextDeps
    /\ mounted' = TRUE
    /\ phase' = "idle"
    /\ UNCHANGED <<native, nextDeps, renders, lastDeps, changed>>

\* The owning instance is destroyed (also the host's answer to an error
\* thrown by the effect): the host calls the registered cleanup closure.
Unmount ==
    /\ phase = "idle"
    /\ mounted
    /\ IF cleanup # NoCleanup
       THEN /\ handles' = HandlesAfterCleanup(cleanup)
            /\ calls' = CallsAfterCleanup(cleanup)
            /\ activations' = ActivationsAfterCleanup(cleanup)
            /\ trace' = Append(trace, <<"teardown", cleanup.activation>>)
            /\ userCalls' = UserCallsAfterCleanup(cleanup)
            /\ thrown' = thrown \o CleanupThrows(cleanup)
            /\ received' = received \o Propagates(CleanupThrows(cleanup))
            /\ error' = (error \/ Propagates(CleanupThrows(cleanup)) # <<>>)
       ELSE UNCHANGED <<handles, calls, activations, trace, userCalls, thrown, received, error>>
    /\ plain' = [calls |-> PlainAfterCleanup, cleanup |-> NoPlainCleanup]
    /\ cleanup' = NoCleanup
    /\ phase' = "destroyed"
    /\ UNCHANGED <<native, controllerRef, firstRun, mounted, deps, nextDeps,
                   renders, lastDeps, changed>>

\* The caller calls controllerRef.current.abort().
ManualAbort ==
    /\ controllerRef # Undefined
    /\ ExternalCalls(Len(handles)) < MaxAbortCalls
    /\ handles' = [handles EXCEPT ![controllerRef] = abort(@)]
    /\ calls' = [calls EXCEPT ![controllerRef].by["external"] = @ + 1]
    /\ UNCHANGED <<native, controllerRef, firstRun, phase, mounted, deps, nextDeps,
                   cleanup, error, activations, trace, renders, lastDeps, changed,
                   userCalls, plain, thrown, received>>

\* User code registers a new listener function l on the signal of controller h.
AddListener(h, l) ==
    /\ h \in 1..Len(handles)
    /\ \A g \in 1..Len(handles) : l \notin calls[g].registered
    /\ handles' = [handles EXCEPT ![h] = addEventListener(@, l)]
    /\ calls' = [calls EXCEPT ![h].registered = @ \cup {l},
                              ![h].early = IF TotalCalls(h) = 0 THEN @ \cup {l} ELSE @]
    /\ UNCHANGED <<native, controllerRef, firstRun, phase, mounted, deps, nextDeps,
                   cleanup, error, activations, trace, renders, lastDeps, changed,
                   userCalls, plain, thrown, received>>

\* The hook under its host and a caller that may abort through the ref.
Next ==
    \/ \E d \in DepsChoices : Render(d, MaxRenders)
    \/ SkipEffect
    \/ Teardown
    \/ \E o \in EffectOutcomes : Activate(o)
    \/ Unmount
    \/ ManualAbort

Spec == Init /\ [][Next]_vars

\* The same, with user code that registers listeners on the signals.
NextSignal ==
    \/ \E d \in DepsChoices : Render(d, MaxSignalRenders)
    \/ SkipEffect
    \/ Teardown
    \/ \E o \in EffectOutcomes : Activate(o)
    \/ Unmount
    \/ ManualAbort
    \/ \E h \in 1..Len(handles), l \in Listeners : AddListener(h, l)

SpecSignal == Init /\ [][NextSignal]_vars

\* After the user's cleanup function threw before a re-run, the host may drop
\* the effect of this commit (it calls the effect closure or not, depending on
\* its version) before it destroys the instance.
AbandonEffect ==
    /\ phase = "cleaned"
    /\ error
    /\ phase' = "idle"
    /\ UNCHANGED <<native, handles, controllerRef, firstRun, mounted, deps, nextDeps,
                   cleanup, error, activations, calls, trace, renders, lastDeps, changed,
                   userCalls, plain, thrown, received>>

\* The hook with user functions that may throw, the cleanup function included.
NextThrow ==
    \/ \E d \in DepsChoices : Render(d, MaxRenders)
    \/ SkipEffect
    \/ Teardown
    \/ \E o \in ThrowingOutcomes : Activate(o)
    \/ AbandonEffect
    \/ Unmount
    \/ ManualAbort

SpecThrow == Init /\ [][NextThrow]_vars

\* The hook with effects that return values of more kinds.
NextReturns ==
    \/ \E d \in DepsChoices : Render(d, MaxSignalRenders)
    \/ SkipEffect
    \/ Teardown
    \/ \E o \in ReturnValues : Activate(o)
    \/ Unmount
    \/ ManualAbort

SpecReturns == Init /\ [][NextReturns]_vars


\* ------------------------------------------------------------ vocabulary
Acts == 1..Len(activations)
Handles == 1..Len(handles)

\* The activation has been followed by another one, or the instance is gone.
Ended(n) == n < Len(activations) \/ phase = "destroyed"

Returned(n) == activations[n].ret # "throw"

\* No call of the effect has returned a function.
DefaultPath == \A n \in Acts : ~TypeofFunction(activations[n].ret)

NonAborted == {h \in Handles : ~handles[h].aborted}

Has(e) == \E i \in 1..Len(trace) : trace[i] = e
Pos(e) == CHOOSE i \in 1..Len(trace) : trace[i] = e
Teardowns == Cardinality({i \in 1..Len(trace) : trace[i][1] = "teardown"})

\* ------------------------------------------------------------------ C1
\* C1: when the teardown of an activation whose effect returned no function
\* has run, the hook has called abort() on that activation's controller, once,
\* and a native controller's signal.aborted is true.
C1_DefaultAutoAbort ==
    \A n \in Acts :
        (~TypeofFunction(activations[n].ret) /\ activations[n].teardowns >= 1) =>
            /\ calls[activations[n].handle].by["binder"] = 1
            /\ handles[activations[n].handle].native => handles[activations[n].handle].aborted

C1_Witness ==
    /\ native
    /\ Len(activations) >= 2
    /\ activations[1].ret = "undefined"
    /\ activations[1].teardowns = 1
    /\ calls[activations[1].handle].by["external"] = 0
    /\ handles[activations[1].handle].aborted

\* ------------------------------------------------------------------ C2
\* C2: for an activation whose effect returned a function, that function is
\* called once at the activation's teardown and never otherwise, the hook
\* itself never calls abort() on the activation's controller, and the
\* controller is aborted only if the function or the caller aborted it.
C2_CustomCleanupReplacesDefault ==
    \A n \in Acts :
        TypeofFunction(activations[n].ret) =>
            /\ Len(activations[n].cleanupArgs) = activations[n].teardowns
            /\ activations[n].teardowns <= 1
            /\ Ended(n) => activations[n].teardowns = 1
            /\ calls[activations[n].handle].by["binder"] = 0
            /\ handles[activations[n].handle].aborted =>
                  \/ calls[activations[n].handle].by["cleanupFn"] > 0
                  \/ calls[activations[n].handle].by["external"] > 0

C2_Witness ==
    /\ native
    /\ Len(activations) >= 2
    /\ activations[1].ret = "fnKeep"
    /\ Len(activations[1].cleanupArgs) = 1
    /\ ~handles[activations[1].handle].aborted

\* ------------------------------------------------------------------ C3
\* C3: with a deps list, once the host has settled after a render, the effect
\* has been called 1 + (re-renders whose list changed) times, as many
\* controllers exist, and one cleanup has run per changed re-render (plus the
\* final one at unmount): a re-render with an equal list adds none of these.
C3_RunsOncePerDepsChange ==
    (phase \in {"idle", "destroyed"} /\ lastDeps.present) =>
        /\ Len(activations) = 1 + changed
        /\ Len(handles) = 1 + changed
        /\ Teardowns = changed +
              (IF phase = "destroyed" /\ Returned(Len(activations)) THEN 1 ELSE 0)

C3_Witness ==
    /\ phase = "idle"
    /\ lastDeps.present
    /\ renders = 3
    /\ changed = 1
    /\ Len(activations) = 2
    /\ Teardowns = 1

\* ------------------------------------------------------------------ C4
\* C4: after the first activation controllerRef.current is the controller of
\* the latest activation, and the effect of every activation was called with
\* the signal of that activation's controller, not the controller.
C4_RefIsLatestHandle ==
    Len(activations) >= 1 =>
        /\ controllerRef = activations[Len(activations)].handle
        /\ activations[Len(activations)].arg = Signal(controllerRef)
        /\ \A n \in Acts : activations[n].arg = Signal(activations[n].handle)

C4_Witness ==
    /\ Len(activations) = 2
    /\ controllerRef = 2
    /\ activations[2].arg = Signal(2)
    /\ activations[1].arg = Signal(1)

\* ------------------------------------------------------------------ C5
\* C5: the cleanup of activation N has run before the controller of
\* activation N+1 is created and before the effect of activation N+1 is
\* called, and no controller is created and no effect called between the
\* effect call of an activation and its cleanup.
C5_TeardownBeforeNextEpoch ==
    \A n \in Acts :
        /\ n > 1 =>
              /\ Has(<<"teardown", n - 1>>)
              /\ Pos(<<"teardown", n - 1>>) < Pos(<<"effect", n>>)
              /\ Pos(<<"teardown", n - 1>>) < Pos(<<"create", activations[n].handle>>)
        /\ \A i \in 1..Len(trace) :
              (/\ Pos(<<"effect", n>>) < i
               /\ Has(<<"teardown", n>>) => i < Pos(<<"teardown", n>>))
                  => trace[i][1] \notin {"create", "effect"}

C5_Witness ==
    /\ Len(activations) = 3
    /\ Has(<<"teardown", 3>>)
    /\ Len(trace) = 9


\* ------------------------------------------------------------------ C6
\* C6 as claimed: while no effect call has returned a function, at most one
\* of the controllers the hook created is non-aborted.
C6_AtMostOneLiveHandle_AsClaimed ==
    DefaultPath => Cardinality(NonAborted) <= 1

\* C6, amended: the same where AbortController exists (the mock controllers
\* of an environment without it are never aborted).
C6_AtMostOneLiveHandle ==
    (native /\ DefaultPath) => Cardinality(NonAborted) <= 1

C6_Witness ==
    /\ native
    /\ DefaultPath
    /\ Len(handles) = 3
    /\ NonAborted = {3}
    /\ calls[1].by["external"] = 0
    /\ calls[2].by["external"] = 0

C8_AbortIdempotent_AsClaimed ==
    \A h \in Handles :
        /\ TotalCalls(h) > 0 =>
              /\ handles[h].aborted
              /\ \A l \in calls[h].early : handles[h].notified[l] = 1
        /\ \A l \in Listeners : handles[h].notified[l] <= 1

\* C8, amended: the same where AbortController exists.
C8_AbortIdempotent ==
    native =>
        \A h \in Handles :
            /\ TotalCalls(h) > 0 =>
                  /\ handles[h].aborted
                  /\ \A l \in calls[h].early : handles[h].notified[l] = 1
            /\ \A l \in Listeners : handles[h].notified[l] <= 1

C8_Witness ==
    \E h \in Handles :
        /\ native
        /\ calls[h].by["external"] = 2
        /\ calls[h].by["binder"] = 1
        /\ calls[h].early # {}
        /\ \A l \in calls[h].early : handles[h].notified[l] = 1

C10_FallbackInert ==
    ~native =>
        \A h \in Handles :
            /\ handles[h] = mockAbortController
            /\ ~handles[h].aborted
            /\ handles[h].listeners = {}
            /\ \A l \in Listeners : handles[h].notified[l] = 0

C10_Witness ==
    /\ ~native
    /\ phase = "destroyed"
    /\ Len(handles) = 2
    /\ calls[1].by["binder"] = 1
    /\ calls[2].by["external"] = 2
    /\ calls[2].registered # {}


\* ----------------------------------------------------------------- C11
\* C11: where AbortController does not exist, the calls of the user's effect
\* and cleanup functions made by the hook are, in order, those a plain
\* useEffect with the same effect body and deps makes.
C11_FallbackLikePlainEffect ==
    ~native => userCalls = plain.calls

C11_Witness ==
    /\ ~native
    /\ phase = "destroyed"
    /\ userCalls = << <<"effect", 1>>, <<"cleanup", 1>>, <<"effect", 2>>, <<"effect", 3>>,
                      <<"cleanup", 3>> >>
    /\ plain.calls = userCalls

\* ----------------------------------------------------------------- C12
\* C12: every error thrown by the user's effect or cleanup function comes out
\* of the hook's closure to the host as it was thrown, in order, the host has
\* an error exactly when a user function threw, and the hook's own state after
\* a throwing effect is that of any other activation.
C12_ErrorsPropagate ==
    /\ received = thrown
    /\ error <=> thrown # <<>>
    /\ \A n \in Acts :
          activations[n].ret = "throw" =>
              /\ \E i \in 1..Len(received) : received[i] = Err("effect", n)
              /\ firstRun = FALSE
              /\ controllerRef = activations[n].handle
    /\ \A n \in Acts :
          (activations[n].ret = "fnThrow" /\ activations[n].teardowns >= 1) =>
              \E i \in 1..Len(received) : received[i] = Err("cleanupFn", n)

C12_Witness ==
    /\ phase = "destroyed"
    /\ received = <<Err("cleanupFn", 1), Err("effect", 2)>>
    /\ thrown = received

\* ----------------------------------------------------------------- C13
\* C13: with the deps omitted, once the host has settled after a render the
\* effect has been called once per render, each call after a cleanup of the
\* previous run, and every re-render has put a new controller in the ref.
C13_NoDepsRunsEveryRender ==
    (phase \in {"idle", "destroyed"} /\ ~lastDeps.present) =>
        /\ Len(activations) = renders
        /\ Len(handles) = renders
        /\ controllerRef = renders
        /\ \A n \in Acts : activations[n].handle = n
        /\ Teardowns = renders - 1 +
              (IF phase = "destroyed" /\ Returned(Len(activations)) THEN 1 ELSE 0)

C13_Witness ==
    /\ phase = "idle"
    /\ ~lastDeps.present
    /\ renders = 3
    /\ Len(activations) = 3
    /\ controllerRef = 3
    /\ Teardowns = 2

\* ----------------------------------------------------------------- C14
\* C14: from the first render on, in every state, controllerRef.current is
\* one of the controllers the hook created (never undefined).
C14_RefNeverEmpty ==
    phase # "init" =>
        /\ controllerRef # Undefined
        /\ controllerRef \in Handles
        /\ handles[controllerRef] \in
              [native : BOOLEAN, aborted : BOOLEAN, listeners : SUBSET Listeners,
               notified : [Listeners -> Nat]]

C14_Witness ==
    /\ phase = "rendered"
    /\ ~mounted
    /\ controllerRef = 1
    /\ Len(activations) = 0

\* ----------------------------------------------------------------- C15
\* C15: the first activation uses the controller created at the first render
\* and creates none, every later activation creates one new controller, so
\* after k >= 1 activations k controllers exist, activation n holding the
\* n-th; firstRun.current is true exactly until the first activation.
C15_HandleCreationCount ==
    /\ firstRun <=> Len(activations) = 0
    /\ (phase # "init" /\ Len(activations) = 0) => Len(handles) = 1
    /\ Len(activations) >= 1 =>
          /\ Len(handles) = Len(activations)
          /\ \A n \in Acts : activations[n].handle = n
          /\ \A h \in Handles : Has(<<"create", h>>)
          /\ Pos(<<"create", 1>>) < Pos(<<"effect", 1>>)
          /\ \A n \in Acts : n > 1 =>
                Pos(<<"create", n>>) = Pos(<<"effect", n>>) - 1

C15_Witness ==
    /\ Len(activations) = 3
    /\ Len(handles) = 3
    /\ ~firstRun

\* ----------------------------------------------------------------- C16
\* C16: once the ref holds a controller, controllerRef.current changes only
\* in a step that calls the effect for an activation after the first:
\* renders, skipped effects, cleanups, abort() calls and unmount leave it.
C16_SingleWriter ==
    [][(controllerRef # Undefined /\ controllerRef' # controllerRef) =>
          /\ Len(activations) >= 1
          /\ Len(activations') = Len(activations) + 1]_vars

C16_Witness ==
    /\ phase = "destroyed"
    /\ renders = 3
    /\ changed = 1
    /\ lastDeps.present
    /\ controllerRef = 2
    /\ calls[2].by["external"] >= 1
    /\ activations[2].teardowns = 1

\* ----------------------------------------------------------------- C17
\* C17: the user's cleanup function is called with the controller whose
\* signal the effect received in the same activation, and that controller is
\* controllerRef.current when the cleanup runs.
C17_CleanupGetsOwnHandle ==
    \A n \in Acts :
        \A i \in 1..Len(activations[n].cleanupArgs) :
            /\ activations[n].cleanupArgs[i] = Controller(activations[n].handle)
            /\ activations[n].arg = Signal(activations[n].cleanupArgs[i].of)
            /\ activations[n].cleanupRefs[i] = activations[n].handle

C17_Witness ==
    /\ Len(activations) = 3
    /\ activations[2].ret \in {"fnKeep", "fnAbort"}
    /\ activations[2].cleanupArgs = <<Controller(2)>>
    /\ activations[2].cleanupRefs = <<2>>

\* ----------------------------------------------------------------- C18
\* C18: an effect that returned anything but a function (undefined, null, a
\* number, a promise, an object) gets the default cleanup: it runs once when
\* the activation is over, calls no user function, and the hook calls abort()
\* on the activation's controller, as for an effect that returned undefined.
C18_NonFunctionSelectsDefault ==
    \A n \in Acts :
        (~TypeofFunction(activations[n].ret) /\ Returned(n)) =>
            /\ activations[n].cleanupArgs = <<>>
            /\ calls[activations[n].handle].by["binder"] = activations[n].teardowns
            /\ Ended(n) =>
                  /\ activations[n].teardowns = 1
                  /\ native => handles[activations[n].handle].aborted
            /\ (n = Len(activations) /\ phase = "idle") =>
                  cleanup = [kind |-> "default", controller |-> activations[n].handle,
                             fn |-> activations[n].ret, activation |-> n]

C18_Witness ==
    /\ native
    /\ phase = "destroyed"
    /\ Len(activations) = 2
    /\ activations[1].ret = "number"
    /\ activations[2].ret = "object"
    /\ \A h \in Handles : handles[h].aborted /\ calls[h].by["binder"] = 1
                             /\ calls[h].by["external"] = 0

\* ----------------------------------------------------------------- C19
\* C19: for every activation after the first, the signal passed to the effect
\* is not aborted when the effect is called and no abort() call has been made
\* on its controller, whatever was called on earlier controllers.
C19_NoLeakAcrossEpochs ==
    \A n \in Acts :
        n > 1 =>
            /\ ~activations[n].abortedAtCall
            /\ activations[n].callsBefore = 0
            /\ \A m \in 1..(n - 1) : activations[m].handle # activations[n].handle

C19_Witness ==
    /\ native
    /\ Len(activations) = 2
    /\ phase = "idle"
    /\ handles[1].aborted
    /\ calls[1].by["external"] >= 1
    /\ calls[1].by["binder"] = 1
    /\ ~activations[2].abortedAtCall
    /\ ~handles[2].aborted

\* ----------------------------------------------------------------- C20
\* C20 as claimed: the first activation uses the controller created at the
\* first render, and when abort() was called on it before the first
\* activation the effect's first call receives an aborted signal.
C20_InitialHandleNotRefreshed_AsClaimed ==
    Len(activations) >= 1 =>
        /\ activations[1].handle = 1
        /\ activations[1].callsBefore >= 1 => activations[1].abortedAtCall

\* C20: the first activation uses the controller created at the first
\* render; where AbortController exists, abort() called on it before the
\* first activation makes the effect's first call receive an aborted signal;
\* where it does not, the signal is never aborted.
C20_InitialHandleNotRefreshed ==
    Len(activations) >= 1 =>
        /\ activations[1].handle = 1
        /\ activations[1].arg = Signal(1)
        /\ native => (activations[1].abortedAtCall <=> activations[1].callsBefore >= 1)
        /\ ~native => ~activations[1].abortedAtCall

C20_Witness ==
    /\ native
    /\ Len(activations) = 1
    /\ phase = "idle"
    /\ activations[1].callsBefore >= 1
    /\ activations[1].abortedAtCall
    /\ controllerRef = 1

C20_Counterexample ==
    /\ ~native
    /\ Len(activations) = 1
    /\ activations[1].callsBefore >= 1
    /\ ~activations[1].abortedAtCall

====
